---------------------------- MODULE Spec2Model ----------------------------
(***************************************************************************)
(* Model of src/internal/ws_impl.rs: the JSON-over-WebSocket adapter of    *)
(* the gateway connection (convert_ws_message, ReceiverExt::recv_json,     *)
(* SenderExt::send_json, create_client).                                   *)
(*                                                                         *)
(* Option<T> is a sequence of length 0 (None) or 1 (Some).  Result<T> is a *)
(* record [ok, val, err].  Records of one kind always carry the same       *)
(* fields, so that any two of them can be compared.                        *)
(***************************************************************************)
EXTENDS Integers, Sequences, FiniteSets, TLC

--------------------------------------------------------------------------
(* Bounds of the model *)

\* longest text payload drawn as a decoder input
MaxTextLen == 4
\* longest binary payload drawn as a decoder input
MaxBinLen == 3
\* longest array of a structured value
MaxArrLen == 2
\* longest array nested in an array of a structured value
MaxInnerLen == 1
\* frames (or stream errors) the transport delivers on one connection
MaxDeliver == 2
\* recv_json calls on one connection
MaxRecv == 2
\* send_json calls on one connection
MaxSend == 1
\* create_client attempts
MaxConnect == 2
\* milliseconds the clock advances in one step
TickMs == 250

--------------------------------------------------------------------------
(* Option and the error domain *)

None == <<>>
Some(x) == <<x>>

\* the optional (code, reason) payload of a Close frame
CloseFrame(code, reason) == [code |-> code, reason |-> reason]

NoError == [kind |-> "none", detail |-> "", frame |-> None]
\* Error::Tungstenite(e), by From<tungstenite::Error>
TungsteniteError(e) == [kind |-> "Tungstenite", detail |-> e, frame |-> None]
\* Error::Io(e), by From<std::io::Error>
IoError(e) == [kind |-> "Io", detail |-> e, frame |-> None]
\* Error::Json(e), by From<json error>
JsonError(e) == [kind |-> "Json", detail |-> e, frame |-> None]
\* Error::Gateway(GatewayError::Closed(frame))
GatewayClosed(frame) == [kind |-> "Gateway", detail |-> "Closed", frame |-> frame]

\* Result<Option<Value>>
Ok(v) == [ok |-> TRUE, val |-> v, err |-> NoError]
Err(e) == [ok |-> FALSE, val |-> None, err |-> e]

--------------------------------------------------------------------------
(* Structured values and their JSON text (crate::json)                     *)
(* The modelled fragment of JSON: unsigned integers and arrays.  A text is *)
(* a sequence of one-character strings.                                    *)

Num(n) == [t |-> "num", n |-> n, items |-> <<>>]
Arr(items) == [t |-> "arr", n |-> 0, items |-> items]
\* a number with no JSON representation (non-finite)
NonFinite == [t |-> "nonfinite", n |-> 0, items |-> <<>>]

DigitChar == <<"0", "1", "2", "3", "4", "5", "6", "7", "8", "9">>
Digits == {DigitChar[i] : i \in 1..10}
DigitVal(c) == (CHOOSE i \in 1..10 : DigitChar[i] = c) - 1

RECURSIVE NumText(_)
NumText(n) ==
    IF n < 10 THEN <<DigitChar[n + 1]>>
    ELSE NumText(n \div 10) \o <<DigitChar[(n % 10) + 1]>>

RECURSIVE to_string(_)
RECURSIVE JoinItems(_, _)
\* the items from position i on, separated by commas
JoinItems(items, i) ==
    IF i > Len(items) THEN [ok |-> TRUE, text |-> <<>>]
    ELSE LET head == to_string(items[i])
             rest == JoinItems(items, i + 1)
         IN  IF ~head.ok \/ ~rest.ok THEN [ok |-> FALSE, text |-> <<>>]
             ELSE [ok |-> TRUE,
                   text |-> head.text
                            \o (IF i < Len(items) THEN <<",">> ELSE <<>>)
                            \o rest.text]

\* json::to_string: the canonical text of a value, or a serialization error
to_string(v) ==
    CASE v.t = "num" -> [ok |-> TRUE, text |-> NumText(v.n)]
      [] v.t = "arr" ->
            LET body == JoinItems(v.items, 1)
            IN  IF body.ok THEN [ok |-> TRUE, text |-> <<"[">> \o body.text \o <<"]">>]
                ELSE [ok |-> FALSE, text |-> <<>>]
      [] OTHER -> [ok |-> FALSE, text |-> <<>>]

ParseFail == [ok |-> FALSE, val |-> Num(0), next |-> 0]
ParseOk(v, next) == [ok |-> TRUE, val |-> v, next |-> next]

RECURSIVE ParseDigits(_, _, _)
ParseDigits(s, i, acc) ==
    IF i <= Len(s) /\ s[i] \in Digits
    THEN ParseDigits(s, i + 1, acc * 10 + DigitVal(s[i]))
    ELSE ParseOk(Num(acc), i)

RECURSIVE ParseValue(_, _)
RECURSIVE ParseElems(_, _, _)
\* the elements of an array from position i on, up to the closing bracket
ParseElems(s, i, acc) ==
    LET r == ParseValue(s, i)
    IN  IF ~r.ok THEN ParseFail
        ELSE IF r.next <= Len(s) /\ s[r.next] = ","
             THEN ParseElems(s, r.next + 1, Append(acc, r.val))
        ELSE IF r.next <= Len(s) /\ s[r.next] = "]"
             THEN ParseOk(Arr(Append(acc, r.val)), r.next + 1)
        ELSE ParseFail

\* one JSON value starting at position i
ParseValue(s, i) ==
    IF i > Len(s) THEN ParseFail
    ELSE IF s[i] = "0" THEN ParseOk(Num(0), i + 1)
    ELSE IF s[i] \in Digits THEN ParseDigits(s, i, 0)
    ELSE IF s[i] = "["
         THEN IF i + 1 <= Len(s) /\ s[i + 1] = "]"
              THEN ParseOk(Arr(<<>>), i + 2)
              ELSE ParseElems(s, i + 1, <<>>)
    ELSE ParseFail

\* json::from_str: the value of a text, or a parse error; trailing
\* characters are an error
from_str(s) ==
    LET r == ParseValue(s, 1)
    IN  IF r.ok /\ r.next = Len(s) + 1
        THEN [ok |-> TRUE, val |-> r.val, err |-> NoError]
        ELSE [ok |-> FALSE, val |-> Num(0), err |-> JsonError("syntax")]

--------------------------------------------------------------------------
(* zlib (flate2::read::ZlibDecoder) over an abstract byte alphabet         *)
(* Byte b in 1..Len(Utf8) is the UTF-8 encoding of the character Utf8[b];  *)
(* a stream is a header byte, the payload bytes and a checksum byte.       *)

Utf8 == <<"[", "]", ",", "0", "1">>
\* a byte that is no character of a UTF-8 text
BadUtf8Byte == Len(Utf8) + 1
\* the header byte of a zlib stream
ZlibHeader == Len(Utf8) + 2
ZlibModulus == Len(Utf8) + 3

RECURSIVE SumBytes(_)
SumBytes(b) == IF b = <<>> THEN 0 ELSE b[1] + SumBytes(Tail(b))
Checksum(body) == (1 + SumBytes(body)) % ZlibModulus

EncodeUtf8(s) == [i \in 1..Len(s) |-> CHOOSE b \in 1..Len(Utf8) : Utf8[b] = s[i]]

\* a valid zlib compression of a text
ZlibCompress(s) ==
    LET body == EncodeUtf8(s) IN <<ZlibHeader>> \o body \o <<Checksum(body)>>

\* ZlibDecoder::new(&bytes[..]).read_to_string(&mut decompressed)
ZlibReadToString(bytes) ==
    IF Len(bytes) < 2 \/ bytes[1] # ZlibHeader
    THEN [ok |-> FALSE, text |-> <<>>, err |-> "corrupt deflate stream"]
    ELSE LET body == SubSeq(bytes, 2, Len(bytes) - 1)
         IN  IF bytes[Len(bytes)] # Checksum(body)
             THEN [ok |-> FALSE, text |-> <<>>, err |-> "corrupt deflate stream"]
             ELSE IF \E i \in 1..Len(body) : body[i] \notin 1..Len(Utf8)
             THEN [ok |-> FALSE, text |-> <<>>,
                   err |-> "stream did not contain valid UTF-8"]
             ELSE [ok |-> TRUE, text |-> [i \in 1..Len(body) |-> Utf8[body[i]]],
                   err |-> ""]

--------------------------------------------------------------------------
(* tungstenite::Message *)

Text(s) == [kind |-> "Text", text |-> s, bytes |-> <<>>, frame |-> None]
Binary(b) == [kind |-> "Binary", text |-> <<>>, bytes |-> b, frame |-> None]
Close(frame) == [kind |-> "Close", text |-> <<>>, bytes |-> <<>>, frame |-> frame]
Ping == [kind |-> "Ping", text |-> <<>>, bytes |-> <<>>, frame |-> None]
Pong == [kind |-> "Pong", text |-> <<>>, bytes |-> <<>>, frame |-> None]
\* Message::Frame, a raw (continuation) frame
RawFrame == [kind |-> "Frame", text |-> <<>>, bytes |-> <<>>, frame |-> None]

--------------------------------------------------------------------------
(* convert_ws_message *)

\* the parse of a payload text: from_str(..).map(Some).map_err(..)?
ConvertPayload(text) ==
    LET r == from_str(text)
    IN  IF r.ok THEN Ok(Some(r.val)) ELSE Err(r.err)

\* mutant: a decompression failure is dropped instead of propagated
ConvertBinarySwallow(bytes) ==
    LET d == ZlibReadToString(bytes)
    IN  IF ~d.ok THEN Ok(None) ELSE ConvertPayload(d.text)

\* the arm Some(Message::Binary(bytes))
ConvertBinary(bytes) ==
    LET d == ZlibReadToString(bytes)
    IN  IF ~d.ok THEN Err(IoError(d.err)) ELSE ConvertPayload(d.text)

\* the arm Some(Message::Text(payload))
ConvertText(payload) == ConvertPayload(payload)

\* mutant: the Close arm matches only the absent payload, so that a Close
\* with a payload falls through to the catch-all
ConvertCloseDropped(frame) == Ok(None)

\* the arm Some(Message::Close(Some(frame)))
ConvertClose(frame) == Err(GatewayClosed(Some(frame)))

\* mutant: the Close arm binds the optional payload, so that Close(None) is
\* a closure error too
convert_ws_message_CloseAny(message) ==
    IF message = None THEN Ok(None)
    ELSE LET m == message[1]
         IN  CASE m.kind = "Binary" -> ConvertBinary(m.bytes)
               [] m.kind = "Text" -> ConvertText(m.text)
               [] m.kind = "Close" -> Err(GatewayClosed(m.frame))
               [] OTHER -> Ok(None)

convert_ws_message(message) ==
    IF message = None THEN Ok(None)
    ELSE LET m == message[1]
         IN  CASE m.kind = "Binary" -> ConvertBinary(m.bytes)
               [] m.kind = "Text" -> ConvertText(m.text)
               [] m.kind = "Close" /\ m.frame # None -> ConvertClose(m.frame[1])
               [] OTHER -> Ok(None)

--------------------------------------------------------------------------
(* send_json, up to the call of the transport's send primitive *)

\* mutant: the serialized text is wrapped in a Binary frame
SendJsonFrameBinary(value) ==
    LET s == to_string(value)
    IN  IF s.ok THEN [ok |-> TRUE, msg |-> Binary(EncodeUtf8(s.text)), err |-> NoError]
        ELSE [ok |-> FALSE, msg |-> Text(<<>>), err |-> JsonError("serialize")]

\* mutant: a value that fails to serialize is sent as an empty text
SendJsonFrameLossy(value) ==
    LET s == to_string(value)
    IN  [ok |-> TRUE, msg |-> Text(s.text), err |-> NoError]

\* to_string(value).map(Message::Text).map_err(Error::from)
SendJsonFrame(value) ==
    LET s == to_string(value)
    IN  IF s.ok THEN [ok |-> TRUE, msg |-> Text(s.text), err |-> NoError]
        ELSE [ok |-> FALSE, msg |-> Text(<<>>), err |-> JsonError("serialize")]

--------------------------------------------------------------------------
(* Inputs of the decoder and of the encoder *)

SeqsUpTo(S, n) == UNION {[1..k -> S] : k \in 0..n}

InputChars == {Utf8[i] : i \in 1..Len(Utf8)}
InputBytes == 0..(ZlibModulus - 1)
TextInputs == SeqsUpTo(InputChars, MaxTextLen)

\* a zlib stream cut short by one byte
Truncated(b) == SubSeq(b, 1, Len(b) - 1)
\* a zlib stream whose checksum byte is off by one
BadChecksum(b) == [b EXCEPT ![Len(b)] = (b[Len(b)] + 1) % ZlibModulus]

BinaryInputs ==
    SeqsUpTo(InputBytes, MaxBinLen)
      \cup {ZlibCompress(t) : t \in TextInputs}
      \cup {Truncated(ZlibCompress(t)) : t \in TextInputs}
      \cup {BadChecksum(ZlibCompress(t)) : t \in TextInputs}

CloseInputs ==
    {Close(None)}
      \cup {Close(Some(CloseFrame(c, r))) : c \in {1000, 4004}, r \in {"", "bye"}}

DecoderInputs ==
    {None}
      \cup {Some(Text(t)) : t \in TextInputs}
      \cup {Some(Binary(b)) : b \in BinaryInputs}
      \cup {Some(c) : c \in CloseInputs}
      \cup {Some(Ping), Some(Pong), Some(RawFrame)}

ModelNums == {0, 1, 10}
Atoms == {Num(n) : n \in ModelNums} \cup {NonFinite}
InnerValues == Atoms \cup {Arr(s) : s \in SeqsUpTo(Atoms, MaxInnerLen)}
Values == InnerValues \cup {Arr(s) : s \in SeqsUpTo(InnerValues, MaxArrLen)}

--------------------------------------------------------------------------
(* create_client *)

\* mutant: the connection is opened without the configuration, so that the
\* engine's default limits apply
DefaultConfig ==
    [max_message_size |-> Some(67108864), max_frame_size |-> Some(16777216),
     max_send_queue |-> None, accept_unmasked_frames |-> FALSE]

\* the WebSocketConfig literal
SessionConfig ==
    [max_message_size |-> None, max_frame_size |-> None,
     max_send_queue |-> None, accept_unmasked_frames |-> FALSE]

\* outcomes of connect_async_with_config
Handshakes ==
    {[ok |-> TRUE, err |-> ""], [ok |-> FALSE, err |-> "Io"], [ok |-> FALSE, err |-> "Http"]}

NotConnected == [ok |-> FALSE, stream |-> None, err |-> NoError]

\* let (stream, _) = connect_async_with_config(req, Some(config)).await?; Ok(stream)
create_client(handshake) ==
    IF handshake.ok
    THEN [ok |-> TRUE, stream |-> Some([config |-> SessionConfig]), err |-> NoError]
    ELSE [ok |-> FALSE, stream |-> None, err |-> TungsteniteError(handshake.err)]

--------------------------------------------------------------------------
(* recv_json *)

TIMEOUT == 500

Min(a, b) == IF a < b THEN a ELSE b

\* an item of the stream: Ok(frame) or Err(transport error)
FrameItem(m) == [isErr |-> FALSE, msg |-> m, err |-> ""]
ErrorItem(e) == [isErr |-> TRUE, msg |-> RawFrame, err |-> e]

\* what timeout(TIMEOUT, self.next()).await gives
PolledItem(item) == [tag |-> "Item", item |-> item]
PolledEnd == [tag |-> "End", item |-> FrameItem(RawFrame)]
PolledElapsed == [tag |-> "Elapsed", item |-> FrameItem(RawFrame)]
PolledPending == [tag |-> "Pending", item |-> FrameItem(RawFrame)]

\* the timeout future polls the stream first and the timer second
Poll(s, waited) ==
    IF s.inbox # <<>> THEN PolledItem(Head(s.inbox))
    ELSE IF s.eos THEN PolledEnd
    ELSE IF waited >= TIMEOUT THEN PolledElapsed
    ELSE PolledPending

\* mutant: the expiry of the wait also ends the stream
StreamAfterPollCancel(s, polled) ==
    IF polled.tag = "Item" THEN [s EXCEPT !.inbox = Tail(s.inbox)]
    ELSE IF polled.tag = "Elapsed" THEN [s EXCEPT !.eos = TRUE]
    ELSE s

\* mutant: the frame that was read stays at the head of the stream
StreamAfterPollKeep(s, polled) == s

\* the stream after the poll: an item that was yielded is gone from it, and
\* nothing else changes
StreamAfterPoll(s, polled) ==
    IF polled.tag = "Item" THEN [s EXCEPT !.inbox = Tail(s.inbox)] ELSE s

\* mutant: the expiry of the wait is returned as an error
RecvMatchElapsedErr(polled) ==
    CASE polled.tag = "Item" /\ ~polled.item.isErr ->
            [early |-> FALSE, ret |-> Ok(None), ws_message |-> Some(polled.item.msg)]
      [] polled.tag = "Item" /\ polled.item.isErr ->
            [early |-> TRUE, ret |-> Err(TungsteniteError(polled.item.err)),
             ws_message |-> None]
      [] polled.tag = "Elapsed" ->
            [early |-> TRUE, ret |-> Err(TungsteniteError("Elapsed")),
             ws_message |-> None]
      [] OTHER -> [early |-> FALSE, ret |-> Ok(None), ws_message |-> None]

\* mutant: a transport error is treated as no frame
RecvMatchErrAsNone(polled) ==
    CASE polled.tag = "Item" /\ ~polled.item.isErr ->
            [early |-> FALSE, ret |-> Ok(None), ws_message |-> Some(polled.item.msg)]
      [] OTHER -> [early |-> FALSE, ret |-> Ok(None), ws_message |-> None]

\* the match on the polled outcome: either an early return (early, ret) or
\* the ws_message handed on to convert_ws_message
RecvMatch(polled) ==
    CASE polled.tag = "Item" /\ ~polled.item.isErr ->
            [early |-> FALSE, ret |-> Ok(None), ws_message |-> Some(polled.item.msg)]
      [] polled.tag = "Item" /\ polled.item.isErr ->
            [early |-> TRUE, ret |-> Err(TungsteniteError(polled.item.err)),
             ws_message |-> None]
      [] OTHER -> [early |-> FALSE, ret |-> Ok(None), ws_message |-> None]

\* the return value of recv_json for a polled outcome
recv_json(polled) ==
    LET m == RecvMatch(polled)
    IN  IF m.early THEN m.ret ELSE convert_ws_message(m.ws_message)

--------------------------------------------------------------------------
(* send_json, from the transport's send primitive on *)

\* Result<()>
OkUnit == Ok(None)

\* outcomes of self.send(m).await
SinkOutcomes == {[ok |-> TRUE, err |-> ""], [ok |-> FALSE, err |-> "ConnectionClosed"]}

\* Ok(self.send(m).await?)
SendResult(outcome) ==
    IF outcome.ok THEN OkUnit ELSE Err(TungsteniteError(outcome.err))

--------------------------------------------------------------------------
(* Inputs of the connection *)

StreamItems ==
    {FrameItem(Text(<<"1">>)),
     FrameItem(Binary(<<ZlibHeader, BadUtf8Byte>>)),
     FrameItem(Close(Some(CloseFrame(1000, "bye")))),
     FrameItem(Ping),
     ErrorItem("ConnectionReset")}

SendValues == {Arr(<<Num(1)>>), NonFinite}

--------------------------------------------------------------------------
(* State *)

VARIABLES
    fnPhase,      \* codec run: "value", "input", "done" or "unserializable"
    fnOrigin,     \* where the decoder input came from: "drawn", "send_json", "zlib"
    fnValue,      \* the structured value of an encode-then-decode run
    fnMessage,    \* the Option<Message> passed to convert_ws_message
    fnResult,     \* what the run returned
    client,       \* what the last create_client call returned
    attempts,     \* create_client calls so far
    stream,       \* the WsStream's inbound side: frames not yet read, end flag
    delivered,    \* every item the transport has delivered, in order
    pc,           \* the caller: "idle", "receiving" or "sending"
    elapsed,      \* milliseconds the current recv_json call has waited
    recvLog,      \* one record per recv_json call that returned
    handed,       \* every frame passed to the transport's send primitive
    wire,         \* every frame the transport has transmitted
    sendLog       \* one record per send_json call that returned

fnVars == <<fnPhase, fnOrigin, fnValue, fnMessage, fnResult>>
connVars == <<client, attempts, stream, delivered, pc, elapsed, recvLog,
              handed, wire, sendLog>>
vars == <<fnPhase, fnOrigin, fnValue, fnMessage, fnResult,
          client, attempts, stream, delivered, pc, elapsed, recvLog,
          handed, wire, sendLog>>

--------------------------------------------------------------------------
(* The decoder and the send/decode pair as runs over bounded inputs *)

ConnInit ==
    /\ client = NotConnected
    /\ attempts = 0
    /\ stream = [inbox |-> <<>>, eos |-> FALSE]
    /\ delivered = <<>>
    /\ pc = "idle"
    /\ elapsed = 0
    /\ recvLog = <<>>
    /\ handed = <<>>
    /\ wire = <<>>
    /\ sendLog = <<>>

CodecInit ==
    /\ ConnInit
    /\ fnResult = Ok(None)
    /\ \/ /\ fnPhase = "input"
          /\ fnOrigin = "drawn"
          /\ fnValue = Num(0)
          /\ fnMessage \in DecoderInputs
       \/ /\ fnPhase = "value"
          /\ fnOrigin = "drawn"
          /\ fnValue \in Values
          /\ fnMessage = None

\* send_json builds the frame of the value, or fails to serialize it
FnSendJson ==
    /\ fnPhase = "value"
    /\ LET f == SendJsonFrame(fnValue)
       IN  IF f.ok
           THEN /\ fnMessage' = Some(f.msg)
                /\ fnPhase' = "input"
                /\ fnResult' = fnResult
           ELSE /\ fnMessage' = fnMessage
                /\ fnPhase' = "unserializable"
                /\ fnResult' = Err(f.err)
    /\ fnOrigin' = "send_json"
    /\ UNCHANGED <<fnValue, connVars>>

\* the gateway sends the value's canonical text as a zlib-compressed frame
FnCompress ==
    /\ fnPhase = "value"
    /\ to_string(fnValue).ok
    /\ fnMessage' = Some(Binary(ZlibCompress(to_string(fnValue).text)))
    /\ fnPhase' = "input"
    /\ fnOrigin' = "zlib"
    /\ UNCHANGED <<fnValue, fnResult, connVars>>

\* the frame goes through convert_ws_message
FnConvert ==
    /\ fnPhase = "input"
    /\ fnResult' = convert_ws_message(fnMessage)
    /\ fnPhase' = "done"
    /\ UNCHANGED <<fnOrigin, fnValue, fnMessage, connVars>>

CodecNext == FnSendJson \/ FnCompress \/ FnConvert

SpecCodec == CodecInit /\ [][CodecNext]_vars

--------------------------------------------------------------------------
(* Claims about convert_ws_message *)

\* a run in which convert_ws_message has returned
Decoded == fnPhase = "done"
DecodedFrame(kind) == Decoded /\ fnMessage # None /\ fnMessage[1].kind = kind

\* C2: every Close frame that carries a payload decodes to the closure error
\* GatewayError::Closed holding exactly that code and reason, never to
\* Ok(None) or Ok(Some(_)).
C2_ClosePayloadIsClosureError ==
    (DecodedFrame("Close") /\ fnMessage[1].frame # None)
        => /\ ~fnResult.ok
           /\ fnResult.val = None
           /\ fnResult.err.kind = "Gateway"
           /\ fnResult.err.detail = "Closed"
           /\ fnResult.err.frame = Some(fnMessage[1].frame[1])

C2_Witness ==
    /\ DecodedFrame("Close")
    /\ fnMessage[1].frame = Some(CloseFrame(1000, "bye"))
    /\ fnResult.err.kind = "Gateway"
    /\ fnResult.err.frame[1].code = 1000
    /\ fnResult.err.frame[1].reason = "bye"

\* C3: the absent frame, Ping, Pong, a raw frame and Close without a payload
\* all decode to Ok(None).
C3_NoPayloadIsNone ==
    (Decoded /\ (\/ fnMessage = None
                 \/ fnMessage[1].kind \in {"Ping", "Pong", "Frame"}
                 \/ (fnMessage[1].kind = "Close" /\ fnMessage[1].frame = None)))
        => fnResult = Ok(None)

C3_Witness ==
    /\ DecodedFrame("Close")
    /\ fnMessage[1].frame = None
    /\ fnResult = Ok(None)

\* C4: a value is returned only for a Text frame whose text parses to it or
\* a Binary frame whose bytes decompress to a text that parses to it; a
\* Binary frame that fails to decompress gives an Io error and a payload
\* that fails to parse gives a Json error, never Ok.
C4_ValueOnlyFromFullDecode ==
    Decoded =>
      /\ (fnResult.ok /\ fnResult.val # None) =>
            \/ /\ fnMessage # None
               /\ fnMessage[1].kind = "Text"
               /\ from_str(fnMessage[1].text).ok
               /\ fnResult.val = Some(from_str(fnMessage[1].text).val)
            \/ /\ fnMessage # None
               /\ fnMessage[1].kind = "Binary"
               /\ ZlibReadToString(fnMessage[1].bytes).ok
               /\ from_str(ZlibReadToString(fnMessage[1].bytes).text).ok
               /\ fnResult.val =
                      Some(from_str(ZlibReadToString(fnMessage[1].bytes).text).val)
      /\ (DecodedFrame("Binary") /\ ~ZlibReadToString(fnMessage[1].bytes).ok) =>
            (~fnResult.ok /\ fnResult.err.kind = "Io")
      /\ (DecodedFrame("Binary") /\ ZlibReadToString(fnMessage[1].bytes).ok
            /\ ~from_str(ZlibReadToString(fnMessage[1].bytes).text).ok) =>
            (~fnResult.ok /\ fnResult.err.kind = "Json")
      /\ (DecodedFrame("Text") /\ ~from_str(fnMessage[1].text).ok) =>
            (~fnResult.ok /\ fnResult.err.kind = "Json")

C4_Witness ==
    /\ DecodedFrame("Binary")
    /\ fnOrigin = "drawn"
    /\ Len(fnMessage[1].bytes) > 2
    /\ fnMessage[1].bytes[1] = ZlibHeader
    /\ ~ZlibReadToString(fnMessage[1].bytes).ok
    /\ fnResult.err.kind = "Io"

\* C5: the Text frame send_json builds for a value that serializes, and a
\* Binary frame holding the zlib compression of the value's text, both
\* decode to Ok(Some(value)).
C5_RoundTrip ==
    (Decoded /\ fnOrigin \in {"send_json", "zlib"}) => fnResult = Ok(Some(fnValue))

C5_Witness ==
    /\ Decoded
    /\ fnOrigin = "send_json"
    /\ fnValue = Arr(<<Num(10), Arr(<<Num(0)>>)>>)
    /\ fnMessage = Some(Text(<<"[", "1", "0", ",", "[", "0", "]", "]">>))
    /\ fnResult = Ok(Some(fnValue))

--------------------------------------------------------------------------
(* The connection: create_client, then recv_json and send_json calls of    *)
(* one caller, with the transport delivering frames in between             *)

Init ==
    /\ ConnInit
    /\ fnPhase = "idle"
    /\ fnOrigin = "drawn"
    /\ fnValue = Num(0)
    /\ fnMessage = None
    /\ fnResult = Ok(None)

\* create_client returns a stream or the handshake's error
CreateClient(handshake) ==
    /\ pc = "idle"
    /\ ~client.ok
    /\ attempts < MaxConnect
    /\ client' = create_client(handshake)
    /\ attempts' = attempts + 1
    /\ UNCHANGED <<stream, delivered, pc, elapsed, recvLog, handed, wire, sendLog, fnVars>>

\* the transport delivers a frame or a transport error
Deliver(item) ==
    /\ client.ok
    /\ ~stream.eos
    /\ Len(delivered) < MaxDeliver
    /\ stream' = [stream EXCEPT !.inbox = Append(stream.inbox, item)]
    /\ delivered' = Append(delivered, item)
    /\ UNCHANGED <<client, attempts, pc, elapsed, recvLog, handed, wire, sendLog, fnVars>>

\* the transport reports the end of the stream
EndOfStream ==
    /\ client.ok
    /\ ~stream.eos
    /\ stream' = [stream EXCEPT !.eos = TRUE]
    /\ UNCHANGED <<client, attempts, delivered, pc, elapsed, recvLog, handed, wire,
                   sendLog, fnVars>>

\* the caller calls recv_json, which starts the bounded wait
RecvCall ==
    /\ pc = "idle"
    /\ client.ok
    /\ Len(recvLog) < MaxRecv
    /\ pc' = "receiving"
    /\ elapsed' = 0
    /\ UNCHANGED <<client, attempts, stream, delivered, recvLog, handed, wire, sendLog,
                   fnVars>>

\* time passes while recv_json waits; the timer fires at TIMEOUT
Tick ==
    /\ pc = "receiving"
    /\ Poll(stream, elapsed).tag = "Pending"
    /\ elapsed' = Min(elapsed + TickMs, TIMEOUT)
    /\ UNCHANGED <<client, attempts, stream, delivered, pc, recvLog, handed, wire,
                   sendLog, fnVars>>

\* the wait is over: recv_json matches on the outcome and returns
RecvReturn ==
    /\ pc = "receiving"
    /\ LET polled == Poll(stream, elapsed)
           m == RecvMatch(polled)
       IN  /\ polled.tag # "Pending"
           /\ stream' = StreamAfterPoll(stream, polled)
           /\ recvLog' = Append(recvLog,
                  [how |-> polled.tag,
                   item |-> polled.item,
                   decoded |-> IF m.early THEN None ELSE Some(m.ws_message),
                   result |-> recv_json(polled),
                   elapsed |-> elapsed,
                   seen |-> Len(delivered)])
    /\ pc' = "idle"
    /\ UNCHANGED <<client, attempts, delivered, elapsed, handed, wire, sendLog, fnVars>>

\* the caller calls send_json: the value is serialized and, if that worked,
\* the Text frame is passed to the transport's send primitive
SendCall(value) ==
    /\ pc = "idle"
    /\ client.ok
    /\ Len(sendLog) < MaxSend
    /\ LET f == SendJsonFrame(value)
       IN  IF f.ok
           THEN /\ handed' = Append(handed, f.msg)
                /\ pc' = "sending"
                /\ fnValue' = value
                /\ UNCHANGED sendLog
           ELSE /\ sendLog' = Append(sendLog,
                       [value |-> value, result |-> Err(f.err), sink |-> "not called",
                        handedBefore |-> Len(handed), handedAfter |-> Len(handed),
                        wireBefore |-> Len(wire), wireAfter |-> Len(wire)])
                /\ UNCHANGED <<handed, pc, fnValue>>
    /\ UNCHANGED <<client, attempts, stream, delivered, elapsed, recvLog, wire,
                   fnPhase, fnOrigin, fnMessage, fnResult>>

\* the transport's send completes or fails, and send_json returns
SendReturn(outcome) ==
    /\ pc = "sending"
    /\ wire' = IF outcome.ok THEN Append(wire, handed[Len(handed)]) ELSE wire
    /\ sendLog' = Append(sendLog,
           [value |-> fnValue, result |-> SendResult(outcome),
            sink |-> IF outcome.ok THEN "ok" ELSE "failed",
            handedBefore |-> Len(handed) - 1, handedAfter |-> Len(handed),
            wireBefore |-> Len(wire), wireAfter |-> Len(wire')])
    /\ pc' = "idle"
    /\ fnValue' = Num(0)
    /\ UNCHANGED <<client, attempts, stream, delivered, elapsed, recvLog, handed,
                   fnPhase, fnOrigin, fnMessage, fnResult>>

Next ==
    \/ \E handshake \in Handshakes : CreateClient(handshake)
    \/ \E item \in StreamItems : Deliver(item)
    \/ EndOfStream
    \/ RecvCall
    \/ Tick
    \/ RecvReturn
    \/ \E value \in SendValues : SendCall(value)
    \/ \E outcome \in SinkOutcomes : SendReturn(outcome)

Spec == Init /\ [][Next]_vars

--------------------------------------------------------------------------
(* Claims about recv_json, send_json and create_client *)

\* the calls of the log that read an item from the stream
ItemCalls(log) == SelectSeq(log, LAMBDA e : e.how = "Item")

C6_SendAllOrNothing ==
    \A i \in 1..Len(sendLog) :
        LET e == sendLog[i]
            s == to_string(e.value)
        IN  /\ ~s.ok =>
                  /\ e.result = Err(JsonError("serialize"))
                  /\ e.sink = "not called"
                  /\ e.handedAfter = e.handedBefore
                  /\ e.wireAfter = e.wireBefore
            /\ s.ok =>
                  /\ e.sink \in {"ok", "failed"}
                  /\ e.handedAfter = e.handedBefore + 1
                  /\ handed[e.handedAfter] = Text(s.text)
                  /\ e.result.ok <=> e.sink = "ok"
                  /\ e.sink = "ok" =>
                        (e.wireAfter = e.wireBefore + 1 /\ wire[e.wireAfter] = Text(s.text))
                  /\ e.sink = "failed" =>
                        (e.wireAfter = e.wireBefore /\ e.result.err.kind = "Tungstenite")

C6_Witness ==
    \E i \in 1..Len(sendLog) :
        /\ ~to_string(sendLog[i].value).ok
        /\ sendLog[i].result.err.kind = "Json"
        /\ sendLog[i].handedAfter = sendLog[i].handedBefore
        /\ handed = <<>>

\* C7: a transport error of the stream is returned as it is, without a call
\* of convert_ws_message, and differs from every decode, decompression and
\* closure error and from Ok(None); a frame that was read gives exactly what
\* convert_ws_message gives for it.
C7_TransportErrorPropagates ==
    \A i \in 1..Len(recvLog) :
        LET e == recvLog[i]
        IN  /\ (e.how = "Item" /\ e.item.isErr) =>
                  /\ e.decoded = None
                  /\ e.result = Err(TungsteniteError(e.item.err))
                  /\ e.result.err.kind \notin {"Io", "Json", "Gateway"}
                  /\ e.result # Ok(None)
            /\ (e.how = "Item" /\ ~e.item.isErr) =>
                  /\ e.decoded = Some(Some(e.item.msg))
                  /\ e.result = convert_ws_message(Some(e.item.msg))

C7_Witness ==
    \E i, j \in 1..Len(recvLog) :
        /\ recvLog[i].how = "Item"
        /\ recvLog[i].item.isErr
        /\ recvLog[i].result.err.kind = "Tungstenite"
        /\ recvLog[j].how = "Item"
        /\ ~recvLog[j].item.isErr
        /\ recvLog[j].result.err.kind = "Io"

\* C8: the calls that read an item read the delivered items in the order of
\* delivery, one per call, none twice and none skipped, and each returns the
\* result of its own item.
C8_FramesInOrder ==
    LET calls == ItemCalls(recvLog)
    IN  /\ Len(calls) <= Len(delivered)
        /\ Len(calls) + Len(stream.inbox) = Len(delivered)
        /\ \A k \in 1..Len(calls) :
              /\ calls[k].item = delivered[k]
              /\ calls[k].result = recv_json(PolledItem(delivered[k]))

C8_Witness ==
    /\ Len(recvLog) = 2
    /\ recvLog[1].how = "Item"
    /\ recvLog[2].how = "Item"
    /\ recvLog[1].seen = 2
    /\ delivered[1] # delivered[2]
    /\ recvLog[1].item = delivered[1]
    /\ recvLog[2].item = delivered[2]

\* C9: a recv_json call that times out leaves the stream as it was, and at
\* all times the frames pending in the stream are exactly the delivered
\* frames that no call has read yet.
C9_TimeoutLeavesStream ==
    [][/\ (Len(recvLog') = Len(recvLog) + 1 /\ recvLog'[Len(recvLog')].how = "Elapsed")
            => (stream' = stream /\ delivered' = delivered)
       /\ stream'.inbox = SubSeq(delivered', Len(ItemCalls(recvLog')) + 1, Len(delivered'))
      ]_vars

C9_Witness ==
    \E i \in 1..(Len(recvLog) - 1) :
        /\ recvLog[i].how = "Elapsed"
        /\ recvLog[i + 1].how = "Item"
        /\ recvLog[i].seen < Len(ItemCalls(SubSeq(recvLog, 1, i + 1)))
        /\ recvLog[i + 1].item = delivered[Len(ItemCalls(SubSeq(recvLog, 1, i + 1)))]
        /\ recvLog[i + 1].result = recv_json(PolledItem(recvLog[i + 1].item))

\* the parts of C10 that do not depend on the masking option
C10_Limits ==
    /\ client.ok =>
          /\ client.stream # None
          /\ client.stream[1].config.max_message_size = None
          /\ client.stream[1].config.max_frame_size = None
          /\ client.stream[1].config.max_send_queue = None
    /\ (~client.ok /\ attempts > 0) =>
          /\ client.stream = None
          /\ client.err.kind = "Tungstenite"

\* C10 as stated: every connection create_client returns has no message,
\* frame or send-queue limit and does not reject unmasked frames
\* (accept_unmasked_frames is set), and a failed handshake gives a transport
\* error and no stream.
C10_AsStated ==
    /\ C10_Limits
    /\ client.ok => client.stream[1].config.accept_unmasked_frames = TRUE

\* C10, amended: every connection create_client returns has no message,
\* frame or send-queue limit and has the acceptance of unmasked frames
\* disabled (accept_unmasked_frames is false), and a failed handshake gives a
\* transport error and no stream.
C10_FixedConfig ==
    /\ C10_Limits
    /\ client.ok => client.stream[1].config.accept_unmasked_frames = FALSE

C10_Witness ==
    /\ client.ok
    /\ attempts = 2
    /\ client.stream[1].config.accept_unmasked_frames = FALSE
    /\ client.stream[1].config.max_frame_size = None

=============================================================================
